---- MODULE Spec2Model ----
(***************************************************************************)
(* A model of tana-stdio (src/rust/src/lib.rs): the lazily resolved,       *)
(* process-wide log level and the line emitters that write to the error    *)
(* stream.                                                                 *)
(*                                                                         *)
(* Text is a sequence of one-character strings.  The error stream is the   *)
(* sequence of the lines written to it, one element per eprintln! (the     *)
(* line terminator eprintln! appends is the element boundary; the texts    *)
(* the model draws hold no line terminator).  Writes to the error stream   *)
(* are taken to succeed.                                                   *)
(***************************************************************************)
EXTENDS Integers, Sequences, FiniteSets, TLC

VARIABLES
    env,        \* the LOG_LEVEL environment variable of the process
    cache,      \* the OnceLock LOG_LEVEL: <<>> while uninitialized, else <<level>>
    once,       \* the state of the OnceLock's Once: incomplete, running, complete
    stderr,     \* the error stream: the lines written so far
    owner,      \* history: owner[i] is the thread that wrote stderr[i]
    resolved,   \* history: the values of env the initializing closure has read
    stores,     \* history: how many times a value was written into the cache
    calls,      \* history: the number of calls made so far
    last,       \* history: the most recent completed call and what it observed
    pc,         \* per thread: the position inside the call it is executing
    cur,        \* per thread: the call it is executing and its locals
    rets        \* history, per thread: the values its log_level() calls returned

vars == <<env, cache, once, stderr, owner, resolved, stores, calls, last, pc, cur, rets>>

(***************************************************************************)
(* Bounds of the model.                                                    *)
(***************************************************************************)
MaxCalls == 2
MaxConcCalls == 4
MaxHeaderCalls == 2
NumThreads == 2
MaxLabelLen == 12

Threads == 1..NumThreads

(***************************************************************************)
(* enum LogLevel                                                           *)
(***************************************************************************)
Error == 0
Info == 1
Debug == 2
LogLevel == {Error, Info, Debug}

(***************************************************************************)
(* Text helpers.                                                           *)
(***************************************************************************)
Repeat(c, n) == [i \in 1..n |-> c]

RECURSIVE Concat(_)
Concat(ss) == IF ss = <<>> THEN <<>> ELSE Head(ss) \o Concat(Tail(ss))

\* char::to_lowercase on the characters the model draws
LowerChar(c) ==
    CASE c = "E" -> "e" [] c = "R" -> "r" [] c = "O" -> "o"
      [] c = "D" -> "d" [] c = "B" -> "b" [] c = "U" -> "u" [] c = "G" -> "g"
      [] c = "I" -> "i" [] c = "N" -> "n" [] c = "F" -> "f"
      [] OTHER -> c

UpperChar(c) ==
    CASE c = "e" -> "E" [] c = "r" -> "R" [] c = "o" -> "O"
      [] c = "d" -> "D" [] c = "b" -> "B" [] c = "u" -> "U" [] c = "g" -> "G"
      [] c = "i" -> "I" [] c = "n" -> "N" [] c = "f" -> "F"
      [] OTHER -> c

\* str::to_lowercase
to_lowercase(s) == [i \in 1..Len(s) |-> LowerChar(s[i])]

\* LogLevel::from_str
from_str_exact(s) ==
    IF s = <<"e", "r", "r", "o", "r">> THEN Error
    ELSE IF s = <<"d", "e", "b", "u", "g">> THEN Debug
    ELSE Info

from_str(s) ==
    LET l == to_lowercase(s)
    IN  IF l = <<"e", "r", "r", "o", "r">> THEN Error
        ELSE IF l = <<"d", "e", "b", "u", "g">> THEN Debug
        ELSE Info

(***************************************************************************)
(* The environment variable: unset, set to a value that is not valid       *)
(* Unicode, or set to a string.  env::var answers Ok(s) only in the last   *)
(* case.                                                                   *)
(***************************************************************************)
Unset == [kind |-> "unset", val |-> <<>>]
NotUnicode == [kind |-> "notunicode", val |-> <<>>]
Str(s) == [kind |-> "str", val |-> s]

\* the closure of log_level: env::var("LOG_LEVEL").map(from_str).unwrap_or(Info)
Resolve(e) == IF e.kind = "str" THEN from_str(e.val) ELSE Info

\* OnceLock::get_or_init, run to completion by one thread: the cache afterwards
get_or_init_reread(c, e) == <<Resolve(e)>>

get_or_init(c, e) == IF c = <<>> THEN <<Resolve(e)>> ELSE c

(***************************************************************************)
(* format_args!: the rendering of a format string with positional          *)
(* arguments.  "{{" and "}}" are the escapes of the braces, "{}" takes the *)
(* next argument verbatim, "{:<10}" takes it left-aligned in a field of    *)
(* at least 10 characters.  Any other use of a brace, a placeholder        *)
(* without an argument and an argument without a placeholder are rejected  *)
(* at build time (Compiles is FALSE): no such call exists in any program.  *)
(***************************************************************************)
InfoWidth == 10
HeaderWidth == 40

Hole == <<"{", "}">>
HoleLeft10 == <<"{", ":", "<", "1", "0", "}">>

PadRight_truncate(s, w) ==
    IF Len(s) >= w THEN SubSeq(s, 1, w) ELSE s \o Repeat(" ", w - Len(s))

PadRight(s, w) == IF Len(s) >= w THEN s ELSE s \o Repeat(" ", w - Len(s))

CloseOf(f, i) ==
    LET js == {j \in (i + 1)..Len(f) : f[j] = "}"}
    IN  IF js = {} THEN 0 ELSE CHOOSE j \in js : \A k \in js : j <= k

\* the placeholder opened at f[i] is one the compiler accepts and has an argument
HoleOk(f, i, args, k) ==
    LET j == CloseOf(f, i)
    IN  /\ j # 0
        /\ k <= Len(args)
        /\ SubSeq(f, i + 1, j - 1) \in { <<>>, <<":", "<", "1", "0">> }

\* the argument as the placeholder opened at f[i] renders it
HoleOut(f, i, arg) ==
    IF SubSeq(f, i + 1, CloseOf(f, i) - 1) = <<>> THEN arg ELSE PadRight(arg, InfoWidth)

\* the position of the first brace of f at or after i, Len(f) + 1 when there is none
NextBrace(f, i) ==
    LET js == {j \in i..Len(f) : f[j] \in {"{", "}"}}
    IN  IF js = {} THEN Len(f) + 1 ELSE CHOOSE j \in js : \A k \in js : j <= k

\* the compiler accepts f from position i on, k being the next argument
RECURSIVE FormatOk(_, _, _, _)
FormatOk(f, i, args, k) ==
    LET b == NextBrace(f, i)
    IN  IF b > Len(f) THEN k = Len(args) + 1
        ELSE IF b < Len(f) /\ f[b + 1] = f[b] THEN FormatOk(f, b + 2, args, k)
        ELSE IF f[b] = "{"
        THEN HoleOk(f, b, args, k) /\ FormatOk(f, CloseOf(f, b) + 1, args, k + 1)
        ELSE FALSE

\* the text an accepted f renders from position i on
RECURSIVE FormatOut(_, _, _, _)
FormatOut(f, i, args, k) ==
    LET b == NextBrace(f, i)
    IN  IF b > Len(f) THEN SubSeq(f, i, Len(f))
        ELSE IF b < Len(f) /\ f[b + 1] = f[b]
        THEN SubSeq(f, i, b) \o FormatOut(f, b + 2, args, k)
        ELSE SubSeq(f, i, b - 1) \o HoleOut(f, b, args[k])
                 \o FormatOut(f, CloseOf(f, b) + 1, args, k + 1)

Format(f, args) == FormatOut(f, 1, args, 1)

Compiles(f, args) == FormatOk(f, 1, args, 1)

(***************************************************************************)
(* The format strings of the emitters, as written in the source.           *)
(***************************************************************************)
FmtActionMessage == Concat(<< <<"[">>, Hole, <<"]", " ">>, Hole >>)
FmtWarn == Concat(<< <<"[", "w", "a", "r", "n", "]", " ", "[">>, Hole, <<"]", " ">>, Hole >>)
FmtWarnSimple == <<"[", "w", "a", "r", "n", "]", " ">> \o Hole
FmtStatusOk == Concat(<< <<"[", "o", "k", "]", " ", "[">>, Hole, <<"]", " ">>, Hole >>)
FmtStatusFail == Concat(<< <<"[", "f", "a", "i", "l", "]", " ", "[">>, Hole, <<"]", " ">>, Hole >>)
FmtSuccess == <<"[", "o", "k", "]", " ">> \o Hole
FmtFail == <<"[", "f", "a", "i", "l", "]", " ">> \o Hole
FmtInfo == Concat(<< <<" ", " ">>, HoleLeft10, <<" ">>, Hole >>)
FmtHint == <<" ", " ">> \o Hole
FmtDetail == <<" ", " ", " ", " ", "-", ">", " ">> \o Hole
FmtNextStep == Concat(<< <<" ", " ", "-", ">", " ">>, Hole, <<":", " ">>, Hole >>)
FmtDisplay == Hole
\* concat!("[", $action, "] {}") of logf!, errorf! and debugf!
FmtMacro(action) == Concat(<< <<"[">>, action, <<"]", " ">>, Hole >>)

(***************************************************************************)
(* The inputs the model draws.                                             *)
(***************************************************************************)
Port == <<"p", "o", "r", "t">>

EnvValues ==
    { Unset, NotUnicode,
      Str(<<"d", "e", "b", "u", "g">>), Str(<<"E", "R", "R", "O", "R">>),
      Str(<<"i", "n", "f", "o">>) }

ActionTexts == { <<"a">>, <<"{", "{">>, <<"{", "}">> }
Messages == { <<>>, <<"m">> }
Names == { <<"n">> }
Labels == { Port }
Titles == { <<>>, <<"t">> }

(***************************************************************************)
(* The state after process start: nothing resolved, nothing written.       *)
(***************************************************************************)
NoCall == [op |-> "none", a1 |-> <<>>, a2 |-> <<>>, flag |-> FALSE,
           lvl |-> <<>>, bool |-> <<>>]
Idle == [op |-> "none", a1 |-> <<>>, a2 |-> <<>>, val |-> <<>>, base |-> 0, slow |-> FALSE]

InitWith(E) ==
    /\ env \in E
    /\ cache = <<>>
    /\ once = "incomplete"
    /\ stderr = <<>>
    /\ owner = <<>>
    /\ resolved = <<>>
    /\ stores = 0
    /\ calls = 0
    /\ last = NoCall
    /\ pc = [t \in Threads |-> "idle"]
    /\ cur = [t \in Threads |-> Idle]
    /\ rets = [t \in Threads |-> <<>>]

Init == InitWith(EnvValues)

(***************************************************************************)
(* The process changes LOG_LEVEL (env::set_var, env::remove_var).          *)
(***************************************************************************)
SetEnv(v) ==
    /\ v # env
    /\ env' = v
    /\ UNCHANGED <<cache, once, stderr, owner, resolved, stores, calls, last, pc, cur, rets>>

(***************************************************************************)
(* Calls made by a single thread, each run to completion.                  *)
(***************************************************************************)
\* one eprintln!(f, args): the line it writes
eprintln(f, args) == Format(f, args)

\* the calling thread writes these lines, in this order
Write(lines) ==
    /\ stderr' = stderr \o lines
    /\ owner' = owner \o [i \in 1..Len(lines) |-> 0]

\* a call of log_level() inside the running call
ReadLevel ==
    /\ cache' = get_or_init(cache, env)
    /\ once' = "complete"
    /\ resolved' = IF cache = <<>> THEN Append(resolved, env) ELSE resolved
    /\ stores' = IF cache = <<>> THEN stores + 1 ELSE stores

\* the running call does not call log_level()
NoRead_resolves ==
    /\ cache' = get_or_init(cache, env)
    /\ once' = "complete"
    /\ resolved' = IF cache = <<>> THEN Append(resolved, env) ELSE resolved
    /\ stores' = IF cache = <<>> THEN stores + 1 ELSE stores

NoRead == UNCHANGED <<cache, once, resolved, stores>>

\* the thread makes one more call
Begin == calls < MaxCalls

Finish(op, a1, a2, flag, lvl, bool) ==
    /\ calls' = calls + 1
    /\ last' = [op |-> op, a1 |-> a1, a2 |-> a2, flag |-> flag, lvl |-> lvl, bool |-> bool]
    /\ UNCHANGED <<env, pc, cur, rets>>

\* the comparisons of the source
IsDebugResult(l) == l >= Debug

IsInfoResult_gt(l) == l > Info

IsInfoResult(l) == l >= Info

LogGate(l) == l >= Info

DebugGate_info(l) == l >= Info

DebugGate(l) == l >= Debug

log_level ==
    /\ Begin
    /\ ReadLevel
    /\ Write(<<>>)
    /\ Finish("log_level", <<>>, <<>>, FALSE, cache', <<>>)

is_debug ==
    /\ Begin
    /\ ReadLevel
    /\ Write(<<>>)
    /\ Finish("is_debug", <<>>, <<>>, FALSE, cache', <<IsDebugResult(cache'[1])>>)

is_info ==
    /\ Begin
    /\ ReadLevel
    /\ Write(<<>>)
    /\ Finish("is_info", <<>>, <<>>, FALSE, cache', <<IsInfoResult(cache'[1])>>)

log(action, message) ==
    /\ Begin
    /\ ReadLevel
    /\ Write(IF LogGate(cache'[1])
             THEN <<eprintln(FmtActionMessage, <<action, message>>)>> ELSE <<>>)
    /\ Finish("log", action, message, FALSE, cache', <<>>)

error_gated(action, message) ==
    /\ Begin
    /\ ReadLevel
    /\ Write(IF LogGate(cache'[1])
             THEN <<eprintln(FmtActionMessage, <<action, message>>)>> ELSE <<>>)
    /\ Finish("error", action, message, FALSE, <<>>, <<>>)

error(action, message) ==
    /\ Begin
    /\ NoRead
    /\ Write(<<eprintln(FmtActionMessage, <<action, message>>)>>)
    /\ Finish("error", action, message, FALSE, <<>>, <<>>)

warn(name, message) ==
    /\ Begin
    /\ NoRead
    /\ Write(<<eprintln(FmtWarn, <<name, message>>)>>)
    /\ Finish("warn", name, message, FALSE, <<>>, <<>>)

warn_simple(message) ==
    /\ Begin
    /\ NoRead
    /\ Write(<<eprintln(FmtWarnSimple, <<message>>)>>)
    /\ Finish("warn_simple", message, <<>>, FALSE, <<>>, <<>>)

status(name, message, ok) ==
    /\ Begin
    /\ NoRead
    /\ Write(IF ok THEN <<eprintln(FmtStatusOk, <<name, message>>)>>
                   ELSE <<eprintln(FmtStatusFail, <<name, message>>)>>)
    /\ Finish("status", name, message, ok, <<>>, <<>>)

\* the three lines of header, in the order of its three eprintln!
HeaderLines_noblank(title) ==
    << eprintln(FmtDisplay, <<title>>), eprintln(FmtDisplay, <<title>>),
       eprintln(FmtDisplay, <<Repeat("-", HeaderWidth)>>) >>

HeaderLines(title) ==
    << <<>>, eprintln(FmtDisplay, <<title>>),
       eprintln(FmtDisplay, <<Repeat("-", HeaderWidth)>>) >>

header(title) ==
    /\ Begin
    /\ NoRead
    /\ Write(HeaderLines(title))
    /\ Finish("header", title, <<>>, FALSE, <<>>, <<>>)

blank ==
    /\ Begin
    /\ NoRead
    /\ Write(<< <<>> >>)
    /\ Finish("blank", <<>>, <<>>, FALSE, <<>>, <<>>)

success(message) ==
    /\ Begin
    /\ NoRead
    /\ Write(<<eprintln(FmtSuccess, <<message>>)>>)
    /\ Finish("success", message, <<>>, FALSE, <<>>, <<>>)

fail(message) ==
    /\ Begin
    /\ NoRead
    /\ Write(<<eprintln(FmtFail, <<message>>)>>)
    /\ Finish("fail", message, <<>>, FALSE, <<>>, <<>>)

info(label, value) ==
    /\ Begin
    /\ NoRead
    /\ Write(<<eprintln(FmtInfo, <<label, value>>)>>)
    /\ Finish("info", label, value, FALSE, <<>>, <<>>)

hint(message) ==
    /\ Begin
    /\ NoRead
    /\ Write(<<eprintln(FmtHint, <<message>>)>>)
    /\ Finish("hint", message, <<>>, FALSE, <<>>, <<>>)

detail(message) ==
    /\ Begin
    /\ NoRead
    /\ Write(<<eprintln(FmtDetail, <<message>>)>>)
    /\ Finish("detail", message, <<>>, FALSE, <<>>, <<>>)

next_step(description, command) ==
    /\ Begin
    /\ NoRead
    /\ Write(<<eprintln(FmtNextStep, <<description, command>>)>>)
    /\ Finish("next_step", description, command, FALSE, <<>>, <<>>)

diagnostic(component, message) ==
    /\ Begin
    /\ NoRead
    /\ Write(<<eprintln(FmtWarn, <<component, message>>)>>)
    /\ Finish("diagnostic", component, message, FALSE, <<>>, <<>>)

debug(action, message) ==
    /\ Begin
    /\ ReadLevel
    /\ Write(IF DebugGate(cache'[1])
             THEN <<eprintln(FmtActionMessage, <<action, message>>)>> ELSE <<>>)
    /\ Finish("debug", action, message, FALSE, cache', <<>>)

(***************************************************************************)
(* The macros.  action is the literal spliced into the format string by    *)
(* concat!, m the text the format! of the other arguments evaluates to.  A   *)
(* use whose format string the compiler rejects is no call of any program. *)
(***************************************************************************)
logf(action, m) ==
    /\ Begin
    /\ Compiles(FmtMacro(action), <<m>>)
    /\ ReadLevel
    /\ Write(IF LogGate(cache'[1]) THEN <<eprintln(FmtMacro(action), <<m>>)>> ELSE <<>>)
    /\ Finish("logf", action, m, FALSE, cache', <<>>)

errorf(action, m) ==
    /\ Begin
    /\ Compiles(FmtMacro(action), <<m>>)
    /\ NoRead
    /\ Write(<<eprintln(FmtMacro(action), <<m>>)>>)
    /\ Finish("errorf", action, m, FALSE, <<>>, <<>>)

debugf(action, m) ==
    /\ Begin
    /\ Compiles(FmtMacro(action), <<m>>)
    /\ ReadLevel
    /\ Write(IF DebugGate(cache'[1]) THEN <<eprintln(FmtMacro(action), <<m>>)>> ELSE <<>>)
    /\ Finish("debugf", action, m, FALSE, cache', <<>>)

Next ==
    \/ \E v \in EnvValues : SetEnv(v)
    \/ log_level
    \/ is_debug
    \/ is_info
    \/ \E a \in ActionTexts, m \in Messages : log(a, m)
    \/ \E a \in ActionTexts, m \in Messages : error(a, m)
    \/ \E n \in Names, m \in Messages : warn(n, m)
    \/ \E m \in Messages : warn_simple(m)
    \/ \E n \in Names, m \in Messages, ok \in BOOLEAN : status(n, m, ok)
    \/ \E t \in Titles : header(t)
    \/ blank
    \/ \E m \in Messages : success(m)
    \/ \E m \in Messages : fail(m)
    \/ \E l \in Labels, m \in Messages : info(l, m)
    \/ \E m \in Messages : hint(m)
    \/ \E m \in Messages : detail(m)
    \/ \E n \in Names, m \in Messages : next_step(n, m)
    \/ \E n \in Names, m \in Messages : diagnostic(n, m)
    \/ \E a \in ActionTexts, m \in Messages : debug(a, m)
    \/ \E a \in ActionTexts, m \in Messages : logf(a, m)
    \/ \E a \in ActionTexts, m \in Messages : errorf(a, m)
    \/ \E a \in ActionTexts, m \in Messages : debugf(a, m)

Spec == Init /\ [][Next]_vars

(***************************************************************************)
(* LogLevel::from_str and the closure of log_level on many values of       *)
(* LOG_LEVEL: every mix of upper and lower case of these words, the unset  *)
(* variable and a value that is not Unicode.                               *)
(***************************************************************************)
CaseVariants(w) ==
    { [i \in 1..Len(w) |-> IF i \in S THEN UpperChar(w[i]) ELSE w[i]] :
        S \in SUBSET (1..Len(w)) }

BaseWords ==
    { <<"e", "r", "r", "o", "r">>, <<"d", "e", "b", "u", "g">>, <<"i", "n", "f", "o">>,
      <<"u", "n", "k", "n", "o", "w", "n">>, <<>>, <<"e", "r", "r">>,
      <<"e", "r", "r", "o", "r", "s">>, <<" ", "d", "e", "b", "u", "g">>,
      <<"d", "e", "b", "u", "g", " ">>, <<"e", "r", "r", "o", "r", "d", "e", "b", "u", "g">> }

ParseInputs ==
    {Unset, NotUnicode} \cup { Str(s) : s \in UNION { CaseVariants(w) : w \in BaseWords } }

InitParse == InitWith(ParseInputs)

NextParse ==
    \/ log_level
    \/ is_debug
    \/ is_info

SpecParse == InitParse /\ [][NextParse]_vars

(***************************************************************************)
(* info on labels of every length up to MaxLabelLen.                       *)
(***************************************************************************)
LongLabels == { Repeat("x", n) : n \in 0..MaxLabelLen } \cup { Port, Repeat(" ", 3) }

NextInfo == \E l \in LongLabels, v \in Messages : info(l, v)

SpecInfo == Init /\ [][NextInfo]_vars

(***************************************************************************)
(* Several threads.  A call of log_level() is the steps of                 *)
(* OnceLock::get_or_init: the fast path reads the cell when the Once is    *)
(* complete; otherwise the thread enters the Once, where exactly one       *)
(* thread runs the closure while the others wait until it has stored its   *)
(* value.  Each eprintln! holds the lock of the error stream for the whole *)
(* line, so a line is written in one step.                                 *)
(***************************************************************************)
ConcEnv == { Unset, Str(<<"E", "R", "R", "O", "R">>) }
ConcTexts == { <<"a">> }
ConcTitles == { <<>>, <<"t">> }

SetPc(t, p) == pc' = [pc EXCEPT ![t] = p]

\* the lines of the stream thread t wrote, in the order of the stream
RECURSIVE LinesOf(_, _)
LinesOf(t, n) ==
    IF n = 0 THEN <<>>
    ELSE IF owner[n] = t THEN Append(LinesOf(t, n - 1), stderr[n])
    ELSE LinesOf(t, n - 1)

ThreadLines(t) == LinesOf(t, Len(stderr))

ThreadWrite(t, line) ==
    /\ stderr' = Append(stderr, line)
    /\ owner' = Append(owner, t)

\* thread t calls op with these arguments
Call(t, limit, op, a1, a2, first) ==
    /\ calls < limit
    /\ pc[t] = "idle"
    /\ calls' = calls + 1
    /\ cur' = [cur EXCEPT ![t] = [op |-> op, a1 |-> a1, a2 |-> a2, val |-> <<>>,
                                  base |-> Len(ThreadLines(t)), slow |-> FALSE]]
    /\ SetPc(t, first)
    /\ UNCHANGED <<env, cache, once, stderr, owner, resolved, stores, last, rets>>

\* OnceLock::get, the fast path of get_or_init
Get(t) ==
    /\ pc[t] = "get"
    /\ IF once = "complete"
       THEN /\ cur' = [cur EXCEPT ![t].val = cache]
            /\ SetPc(t, "ret")
       ELSE /\ cur' = [cur EXCEPT ![t].slow = TRUE]
            /\ SetPc(t, "init")
    /\ UNCHANGED <<env, cache, once, stderr, owner, resolved, stores, calls, last, rets>>

\* Once::call_once_force: one thread enters, the others wait while it runs
EnterOnce_racy(t) ==
    /\ pc[t] = "init"
    /\ once' = IF once = "complete" THEN once ELSE "running"
    /\ IF once = "complete"
       THEN /\ cur' = [cur EXCEPT ![t].val = cache]
            /\ SetPc(t, "ret")
       ELSE /\ UNCHANGED cur
            /\ SetPc(t, "closure")
    /\ UNCHANGED <<env, cache, stderr, owner, resolved, stores, calls, last, rets>>

EnterOnce(t) ==
    /\ pc[t] = "init"
    /\ once # "running"
    /\ once' = IF once = "incomplete" THEN "running" ELSE once
    /\ IF once = "incomplete"
       THEN /\ UNCHANGED cur
            /\ SetPc(t, "closure")
       ELSE /\ cur' = [cur EXCEPT ![t].val = cache]
            /\ SetPc(t, "ret")
    /\ UNCHANGED <<env, cache, stderr, owner, resolved, stores, calls, last, rets>>

\* the closure: env::var("LOG_LEVEL").map(from_str).unwrap_or(Info)
RunClosure(t) ==
    /\ pc[t] = "closure"
    /\ cur' = [cur EXCEPT ![t].val = <<Resolve(env)>>]
    /\ resolved' = Append(resolved, env)
    /\ SetPc(t, "store")
    /\ UNCHANGED <<env, cache, once, stderr, owner, stores, calls, last, rets>>

\* the value of the closure is written into the cell and the Once completes
Store(t) ==
    /\ pc[t] = "store"
    /\ cache' = cur[t].val
    /\ stores' = stores + 1
    /\ once' = "complete"
    /\ SetPc(t, "ret")
    /\ UNCHANGED <<env, stderr, owner, resolved, calls, last, cur, rets>>

\* log_level() returns; log goes on to its gate and its eprintln!
Return(t) ==
    /\ pc[t] = "ret"
    /\ rets' = [rets EXCEPT ![t] = Append(@, cur[t].val[1])]
    /\ IF cur[t].op = "log" /\ LogGate(cur[t].val[1])
       THEN ThreadWrite(t, eprintln(FmtActionMessage, <<cur[t].a1, cur[t].a2>>))
       ELSE UNCHANGED <<stderr, owner>>
    /\ SetPc(t, "idle")
    /\ UNCHANGED <<env, cache, once, resolved, stores, calls, last, cur>>

\* header: its n-th eprintln!
HeaderPc(n) == CASE n = 1 -> "hdr1" [] n = 2 -> "hdr2" [] n = 3 -> "hdr3" [] OTHER -> "idle"

HeaderWrite(t, n) ==
    /\ pc[t] = HeaderPc(n)
    /\ ThreadWrite(t, HeaderLines(cur[t].a1)[n])
    /\ SetPc(t, HeaderPc(n + 1))
    /\ UNCHANGED <<env, cache, once, resolved, stores, calls, last, cur, rets>>

NextConc ==
    \/ \E v \in ConcEnv : SetEnv(v)
    \/ \E t \in Threads : Call(t, MaxConcCalls, "log_level", <<>>, <<>>, "get")
    \/ \E t \in Threads, a \in ConcTexts, m \in ConcTexts : Call(t, MaxConcCalls, "log", a, m, "get")
    \/ \E t \in Threads : Get(t)
    \/ \E t \in Threads : EnterOnce(t)
    \/ \E t \in Threads : RunClosure(t)
    \/ \E t \in Threads : Store(t)
    \/ \E t \in Threads : Return(t)

InitConc == InitWith(ConcEnv)

SpecConc == InitConc /\ [][NextConc]_vars

NextHeader ==
    \/ \E t \in Threads, a \in ConcTexts, m \in ConcTexts : Call(t, MaxHeaderCalls, "log", a, m, "get")
    \/ \E t \in Threads, title \in ConcTitles : Call(t, MaxHeaderCalls, "header", title, <<>>, HeaderPc(1))
    \/ \E t \in Threads : Get(t)
    \/ \E t \in Threads : EnterOnce(t)
    \/ \E t \in Threads : RunClosure(t)
    \/ \E t \in Threads : Store(t)
    \/ \E t \in Threads : Return(t)
    \/ \E t \in Threads, n \in 1..3 : HeaderWrite(t, n)

SpecHeader == InitConc /\ [][NextHeader]_vars

(***************************************************************************)
(* What the claims are stated with.                                        *)
(***************************************************************************)
Word_error == <<"e", "r", "r", "o", "r">>
Word_debug == <<"d", "e", "b", "u", "g">>

\* s and t are the same text up to the case of their letters
EqIgnoreCase(s, t) ==
    /\ Len(s) = Len(t)
    /\ \A i \in 1..Len(s) : UpperChar(s[i]) = UpperChar(t[i])

\* the severity a value of LOG_LEVEL stands for
ExpectedLevel(e) ==
    IF e.kind = "str" /\ EqIgnoreCase(e.val, Word_error) THEN Error
    ELSE IF e.kind = "str" /\ EqIgnoreCase(e.val, Word_debug) THEN Debug
    ELSE Info

\* the line `[action] message`
BracketLine(action, message) == <<"[">> \o action \o <<"]", " ">> \o message

\* a call completes in this step
CallStep == calls' = calls + 1

Readers == {"log_level", "is_debug", "is_info", "log", "debug", "logf", "debugf"}

(***************************************************************************)
(* C1.  Once the severity is resolved, no change of LOG_LEVEL and no call  *)
(* changes the cached value or reads the variable again, and every later   *)
(* call that looks at the severity observes the cached value; the variable *)
(* is resolved at most once.                                               *)
(***************************************************************************)
C1_Caching ==
    [][ /\ Len(resolved') <= 1
        /\ cache # <<>> =>
              /\ cache' = cache
              /\ resolved' = resolved
              /\ (CallStep /\ last'.op \in Readers => last'.lvl = cache) ]_vars

\* a second call has observed the cached severity although LOG_LEVEL now
\* stands for another one
C1_Witness ==
    /\ calls = 2
    /\ last.op \in {"log", "debug", "is_debug", "is_info", "log_level"}
    /\ last.lvl = cache
    /\ resolved # <<>>
    /\ env # resolved[1]
    /\ ExpectedLevel(env) # cache[1]

(***************************************************************************)
(* C2.  With several threads inside log_level() while the cache is         *)
(* uninitialized and LOG_LEVEL changing, the closure runs at most once,    *)
(* one value is stored, and every call of every thread returns it.         *)
(***************************************************************************)
C2_SingleStore ==
    /\ stores <= 1
    /\ Len(resolved) <= 1
    /\ stores = 1 <=> cache # <<>>
    /\ \A t \in Threads : \A i \in 1..Len(rets[t]) :
          /\ stores = 1
          /\ cache = <<ExpectedLevel(resolved[1])>>
          /\ rets[t][i] = cache[1]

\* two threads took the slow path of the same initialization, LOG_LEVEL was
\* changed meanwhile, and both have returned
C2_Witness ==
    \E t, u \in Threads :
        /\ t # u
        /\ cur[t].op = "log_level" /\ cur[u].op = "log_level"
        /\ cur[t].slow /\ cur[u].slow
        /\ pc[t] = "idle" /\ pc[u] = "idle"
        /\ rets[t] # <<>> /\ rets[u] # <<>>
        /\ ExpectedLevel(env) # cache[1]

(***************************************************************************)
(* C3.  Resolution is total and case-insensitive: the resolved severity is *)
(* Error iff LOG_LEVEL equals "error" ignoring case, Debug iff it equals   *)
(* "debug" ignoring case, and Info for every other value, the empty        *)
(* string, a value that is not Unicode and the unset variable included.    *)
(***************************************************************************)
C3_Resolution ==
    /\ last.op # "none" => cache # <<>>
    /\ cache # <<>> =>
          LET e == resolved[1]
              isError == e.kind = "str" /\ EqIgnoreCase(e.val, Word_error)
              isDebug == e.kind = "str" /\ EqIgnoreCase(e.val, Word_debug)
          IN  /\ cache[1] \in LogLevel
              /\ cache[1] = Error <=> isError
              /\ cache[1] = Debug <=> isDebug
              /\ cache[1] = Info <=> ~isError /\ ~isDebug

\* a mixed-case spelling of "error" has been resolved to Error
C3_Witness ==
    /\ cache = <<Error>>
    /\ resolved = <<Str(<<"E", "r", "R", "o", "r">>)>>
    /\ last.op = "log_level"

(***************************************************************************)
(* C4.  log(action, message) appends exactly the line `[action] message`   *)
(* iff the cached severity is Info or Debug, debug(action, message) iff it *)
(* is Debug; otherwise the call leaves the error stream as it was.         *)
(***************************************************************************)
C4_GatedEmitters ==
    [][ CallStep /\ last'.op \in {"log", "debug"} =>
          LET emits == IF last'.op = "log" THEN cache' \in {<<Info>>, <<Debug>>}
                                           ELSE cache' = <<Debug>>
          IN  stderr' = IF emits THEN Append(stderr, BracketLine(last'.a1, last'.a2))
                                 ELSE stderr ]_vars

\* under Info, debug has written nothing and log, called after it, its line
C4_Witness ==
    /\ cache = <<Info>>
    /\ calls = 2
    /\ last.op = "log"
    /\ last.a1 = <<"{", "}">>
    /\ resolved = <<Unset>>
    /\ stderr = <<BracketLine(<<"{", "}">>, <<"m">>)>>

(***************************************************************************)
(* C5.  Every emitter other than log and debug writes its full output on   *)
(* every call, whatever the severity; error(action, message) always        *)
(* appends `[action] message`.                                             *)
(***************************************************************************)
Rule40 == [i \in 1..40 |-> "-"]

UngatedOutput(c) ==
    CASE c.op = "error" -> <<BracketLine(c.a1, c.a2)>>
      [] c.op \in {"warn", "diagnostic"} ->
            << <<"[", "w", "a", "r", "n", "]", " ">> \o BracketLine(c.a1, c.a2) >>
      [] c.op = "warn_simple" -> << <<"[", "w", "a", "r", "n", "]", " ">> \o c.a1 >>
      [] c.op = "status" ->
            << (IF c.flag THEN <<"[", "o", "k", "]", " ">>
                          ELSE <<"[", "f", "a", "i", "l", "]", " ">>)
               \o BracketLine(c.a1, c.a2) >>
      [] c.op = "success" -> << <<"[", "o", "k", "]", " ">> \o c.a1 >>
      [] c.op = "fail" -> << <<"[", "f", "a", "i", "l", "]", " ">> \o c.a1 >>
      [] c.op = "info" ->
            << <<" ", " ">> \o c.a1
               \o [i \in 1..(IF Len(c.a1) < 10 THEN 10 - Len(c.a1) ELSE 0) |-> " "]
               \o <<" ">> \o c.a2 >>
      [] c.op = "hint" -> << <<" ", " ">> \o c.a1 >>
      [] c.op = "detail" -> << <<" ", " ", " ", " ", "-", ">", " ">> \o c.a1 >>
      [] c.op = "next_step" ->
            << <<" ", " ", "-", ">", " ">> \o c.a1 \o <<":", " ">> \o c.a2 >>
      [] c.op = "header" -> << <<>>, c.a1, Rule40 >>
      [] c.op = "blank" -> << <<>> >>

Ungated ==
    {"error", "warn", "warn_simple", "status", "success", "fail", "info", "hint",
     "detail", "next_step", "diagnostic", "header", "blank"}

C5_UngatedEmitters ==
    [][ CallStep /\ last'.op \in Ungated => stderr' = stderr \o UngatedOutput(last') ]_vars

\* with the severity resolved to Error, error has written its line
C5_Witness ==
    /\ cache = <<Error>>
    /\ calls = 2
    /\ last.op = "error"
    /\ stderr = <<BracketLine(<<"a">>, <<"m">>)>>

(***************************************************************************)
(* C6.  logf!, errorf! and debugf! write what log, error and debug write   *)
(* for the same action and the formatted message, under every severity:    *)
(* the action verbatim inside the brackets, and nothing when the           *)
(* counterpart is suppressed.                                              *)
(***************************************************************************)
C6_MacrosMirror ==
    [][ CallStep /\ last'.op \in {"logf", "errorf", "debugf"} =>
          LET emits == CASE last'.op = "logf" -> cache' \in {<<Info>>, <<Debug>>}
                         [] last'.op = "debugf" -> cache' = <<Debug>>
                         [] last'.op = "errorf" -> TRUE
          IN  stderr' = IF emits THEN Append(stderr, BracketLine(last'.a1, last'.a2))
                                 ELSE stderr ]_vars

(***************************************************************************)
(* C7.  is_debug() is true iff the cached severity is Debug, is_info() iff *)
(* it is Info or Debug, in the order Error < Info < Debug; so is_info()    *)
(* is true exactly when log emits and is_debug() exactly when debug does.  *)
(***************************************************************************)
C7_Queries ==
    /\ Error < Info /\ Info < Debug
    /\ last.op = "is_debug" => last.bool = <<cache = <<Debug>> >>
    /\ last.op = "is_info" => last.bool = <<cache \in {<<Info>>, <<Debug>>}>>
    /\ \A l \in LogLevel : IsInfoResult(l) = LogGate(l) /\ IsDebugResult(l) = DebugGate(l)

\* is_info() has answered false in Error-only mode
C7_Witness ==
    /\ last.op = "is_info"
    /\ last.bool = <<FALSE>>
    /\ cache = <<Error>>

(***************************************************************************)
(* C8, as claimed.  The first call of any emitter, gated or not, or of a   *)
(* query initializes the severity from the value LOG_LEVEL has at that     *)
(* call.                                                                   *)
(***************************************************************************)
C8_AnyCallInitializes ==
    [][ CallStep /\ cache = <<>> => cache' = <<ExpectedLevel(env)>> ]_vars

(***************************************************************************)
(* C8, amended.  The first call of log, debug, logf!, debugf!,             *)
(* log_level(), is_debug() or is_info() initializes the severity from the  *)
(* value LOG_LEVEL has at that call; a call of any other emitter leaves    *)
(* the severity as it was, uninitialized if it was so.                     *)
(***************************************************************************)
C8_ReadersInitialize ==
    [][ CallStep =>
          IF last'.op \in Readers
          THEN cache' = IF cache = <<>> THEN <<ExpectedLevel(env)>> ELSE cache
          ELSE cache' = cache ]_vars

\* error was called first and left the severity unresolved; LOG_LEVEL then
\* stood for Error when log, the second call, resolved it
C8_Witness ==
    /\ calls = 2
    /\ Len(stderr) = 1
    /\ last.op = "log"
    /\ cache = <<Error>>
    /\ resolved = <<Str(<<"E", "R", "R", "O", "R">>)>>

(***************************************************************************)
(* C9, as claimed.  info(label, value) writes two spaces, the label        *)
(* left-padded (the padding before the label) to 10 characters, a space    *)
(* and the value.                                                          *)
(***************************************************************************)
PadCount(label) == IF Len(label) < 10 THEN 10 - Len(label) ELSE 0

C9_LeftPadded ==
    [][ CallStep /\ last'.op = "info" =>
          stderr' = Append(stderr,
                           <<" ", " ">> \o [i \in 1..PadCount(last'.a1) |-> " "]
                           \o last'.a1 \o <<" ">> \o last'.a2) ]_vars

(***************************************************************************)
(* C9, amended.  info(label, value) writes two spaces, the label           *)
(* left-aligned and padded on its right with spaces to at least 10         *)
(* characters, a space and the value: the label is never truncated, and a  *)
(* label of at most 10 characters fills a field of exactly 10.             *)
(***************************************************************************)
C9_LeftAligned ==
    [][ CallStep /\ last'.op = "info" =>
          LET field == last'.a1 \o [i \in 1..PadCount(last'.a1) |-> " "]
          IN  /\ stderr' = Append(stderr, <<" ", " ">> \o field \o <<" ">> \o last'.a2)
              /\ SubSeq(field, 1, Len(last'.a1)) = last'.a1
              /\ Len(last'.a1) <= 10 => Len(field) = 10 ]_vars

\* a label longer than 10 characters has been written in full
C9_Witness ==
    /\ last.op = "info"
    /\ Len(last.a1) = 11
    /\ Len(stderr) = 1
    /\ stderr[1] = <<" ", " ">> \o last.a1 \o <<" ">> \o last.a2

(***************************************************************************)
(* C10.  header(title) appends three lines in this order: a blank line,    *)
(* the title verbatim, a line of 40 `-`; each is written whole, and lines  *)
(* of other threads may fall between them.                                 *)
(***************************************************************************)
HeaderProgress(p) ==
    CASE p = "hdr1" -> 0 [] p = "hdr2" -> 1 [] p = "hdr3" -> 2 [] OTHER -> 3

C10_Header ==
    \A t \in Threads :
        cur[t].op = "header" =>
            LET mine == ThreadLines(t)
                want == << <<>>, cur[t].a1, Rule40 >>
            IN  /\ Len(mine) = cur[t].base + HeaderProgress(pc[t])
                /\ SubSeq(mine, cur[t].base + 1, Len(mine))
                      = SubSeq(want, 1, HeaderProgress(pc[t]))

\* a header is complete and a line of another thread lies between its lines
C10_Witness ==
    \E t \in Threads :
        /\ cur[t].op = "header"
        /\ pc[t] = "idle"
        /\ \E i, j, k \in 1..Len(stderr) :
              /\ i < j /\ j < k
              /\ owner[i] = t /\ owner[k] = t
              /\ owner[j] # t
              /\ stderr[i] = <<>>
              /\ stderr[k] = Rule40

====
